---- MODULE Spec2Model ----
(***************************************************************************)
(* Model of src/server.js: the OpenAI -> NVIDIA NIM proxy.                 *)
(*                                                                         *)
(* The file holds two definitions of the service one after the other: the  *)
(* first (lines 1-113) pipes a streamed answer through unchanged, the      *)
(* second, marked FINAL (lines 115-287), reassembles the upstream SSE text *)
(* into lines and rewrites every event.  The variable defn says which of   *)
(* the two definitions of POST /v1/chat/completions serves the request.    *)
(*                                                                         *)
(* Text is modelled as a sequence of tokens.  A token is one byte or       *)
(* character, or one run of ASCII text that no operation of the program    *)
(* looks inside ("data:", "[DONE]", the head of a JSON text).  The only    *)
(* non-ASCII character is U+00E9, two bytes (0xC3 0xA9) on the wire.       *)
(***************************************************************************)
EXTENDS Integers, Sequences, FiniteSets, TLC

\* The longest upstream answer of a streaming task, in lines.
MaxLines == 2
MaxChunks == 2

(***************************************************************************)
(* JavaScript values                                                       *)
(***************************************************************************)
Undefined == [t |-> "undefined"]
Null == [t |-> "null"]
Str(s) == [t |-> "string", s |-> s]
Num(s) == [t |-> "number", s |-> s]
Bool(b) == [t |-> "boolean", b |-> b]
\* A member inherited from Object.prototype (a function, or the prototype).
Inherited(name) == [t |-> "builtin", s |-> name]
Arr(items) == [t |-> "array", items |-> items]
EmptyObject == [t |-> "object"]

\* o[k]: the value of property k of object o, undefined when o has no such key
Get(o, k) == IF k \in DOMAIN o THEN o[k] ELSE Undefined
\* o[k] = v
SetField(o, k, v) == [x \in (DOMAIN o) \cup {k} |-> IF x = k THEN v ELSE o[x]]

\* x ?? y
Nullish(x) == x.t \in {"undefined", "null"}
Coalesce(x, y) == IF Nullish(x) THEN y ELSE x

\* ToBoolean(x), for the values of the model
Truthy(x) ==
  CASE x.t \in {"undefined", "null"} -> FALSE
    [] x.t = "string" -> x.s # ""
    [] x.t = "number" -> x.s # "0"
    [] x.t = "boolean" -> x.b
    [] OTHER -> TRUE

\* `${x}`: ToString(x), for a string or a nullish value
TemplateString(x) ==
  CASE x.t = "string" -> x.s
    [] x.t = "undefined" -> "undefined"
    [] x.t = "null" -> "null"
    [] OTHER -> x.s

(***************************************************************************)
(* Tokens of text                                                          *)
(***************************************************************************)
Tok(c) == [c |-> c]
NL == Tok("\\n")
SP == Tok(" ")
DATA == Tok("data:")
DONE == Tok("[DONE]")
LitX == Tok("x")
EventPing == Tok("event: ping")
NullLit == Tok("null")
\* The two bytes of U+00E9 in UTF-8, the character, and U+FFFD.
ByteC3 == Tok("0xC3")
ByteA9 == Tok("0xA9")
EAcute == Tok("U+00E9")
Replacement == Tok("U+FFFD")
\* A JSON text is JHead(v, ws), then characters, then JTail: the text of the
\* value v cut open at the end of the content string of its first choice, the
\* characters that string goes on with, and the rest.  ws says the text has
\* insignificant white space between its tokens.
JHead(v, ws) == [c |-> "json", v |-> v, ws |-> ws]
JTail == Tok("json-end")

IsJHead(tk) == tk.c = "json"
IsStringChar(tk) == tk \in {LitX, EAcute, Replacement}

(***************************************************************************)
(* Strings and text                                                        *)
(***************************************************************************)
RECURSIVE Concat(_)
\* The string made of the characters chars.
Concat(chars) ==
  IF chars = <<>> THEN "" ELSE Head(chars).c \o Concat(Tail(chars))

RECURSIVE Decode(_)
\* chunk.toString(): the bytes of one chunk decoded as UTF-8 on their own.  A
\* lead byte with no continuation byte after it in the chunk, and a
\* continuation byte with no lead byte before it, each decode to U+FFFD.
Decode(bytes) ==
  IF \A i \in DOMAIN bytes : bytes[i] \notin {ByteC3, ByteA9} THEN bytes
  ELSE IF Head(bytes) = ByteC3
    THEN IF Len(bytes) >= 2 /\ bytes[2] = ByteA9
           THEN <<EAcute>> \o Decode(SubSeq(bytes, 3, Len(bytes)))
           ELSE <<Replacement>> \o Decode(Tail(bytes))
  ELSE IF Head(bytes) = ByteA9
    THEN <<Replacement>> \o Decode(Tail(bytes))
  ELSE <<Head(bytes)>> \o Decode(Tail(bytes))

RECURSIVE Split(_)
\* text.split("\n"): the pieces between the newlines, one more than there are
\* newlines.
Split(text) ==
  LET at == {i \in DOMAIN text : text[i] = NL} IN
    IF at = {} THEN <<text>>
    ELSE LET k == CHOOSE i \in at : \A j \in at : i <= j
         IN <<SubSeq(text, 1, k - 1)>> \o Split(SubSeq(text, k + 1, Len(text)))

Front(s) == SubSeq(s, 1, Len(s) - 1)
Last(s) == s[Len(s)]

\* line.startsWith("data:")
StartsWithData(line) == Len(line) >= 1 /\ line[1] = DATA

\* The strings of the model that hold the characters [DONE].
StringsWithDone == {"say [DONE]"}

\* Whether the JSON text of v holds the characters [DONE] (in one of the
\* strings of a delta).
JsonTextHasDone(v) ==
  /\ v.t = "object"
  /\ Get(v, "choices").t = "array"
  /\ \E i \in DOMAIN v.choices.items :
       LET d == Get(v.choices.items[i], "delta") IN
         /\ d.t = "object"
         /\ \E k \in {"content", "reasoning_content"} :
              Get(d, k).t = "string" /\ Get(d, k).s \in StringsWithDone

\* line.includes("[DONE]")
IncludesDone(line) ==
  \E i \in DOMAIN line :
    line[i] = DONE \/ (IsJHead(line[i]) /\ JsonTextHasDone(line[i].v))

\* line.slice(5): the line without its first five characters, "data:"
Slice5(line) == Tail(line)

RECURSIVE TrimLeft(_)
TrimLeft(text) ==
  IF text # <<>> /\ Head(text) = SP THEN TrimLeft(Tail(text)) ELSE text

RECURSIVE TrimRight(_)
TrimRight(text) ==
  IF text # <<>> /\ Last(text) = SP THEN TrimRight(Front(text)) ELSE text

\* Whether v has a first choice whose delta has a string content.
HasContentString(v) ==
  /\ v.t = "object"
  /\ Get(v, "choices").t = "array"
  /\ Len(v.choices.items) >= 1
  /\ Get(v.choices.items[1], "delta").t = "object"
  /\ Get(v.choices.items[1].delta, "content").t = "string"

\* v with the characters chars appended to the content of its first delta.
WithChars(v, chars) ==
  IF chars = <<>> THEN v
  ELSE [v EXCEPT !.choices.items[1].delta.content =
                     Str(@.s \o Concat(chars))]

\* JSON.parse(text): [ok |-> TRUE, v |-> the value], or ok = FALSE for the
\* SyntaxError.  White space around the value is skipped.
JSONParse(text) ==
  LET t == TrimRight(TrimLeft(text)) IN
    IF t = <<NullLit>> THEN [ok |-> TRUE, v |-> Null]
    ELSE IF /\ Len(t) >= 2
            /\ IsJHead(t[1])
            /\ t[Len(t)] = JTail
            /\ \A i \in 2..(Len(t) - 1) : IsStringChar(t[i])
            /\ (Len(t) > 2 => HasContentString(t[1].v))
      THEN [ok |-> TRUE, v |-> WithChars(t[1].v, SubSeq(t, 2, Len(t) - 1))]
      ELSE [ok |-> FALSE, v |-> Undefined]

\* JSON.stringify(v): the text of v, with no white space.
JSONStringify(v) == <<JHead(v, FALSE), JTail>>

(***************************************************************************)
(* The streaming handler of the final definition (lines 210-246)           *)
(***************************************************************************)
\* MergedContent with the toggle not consulted: the reasoning is merged
\* whenever there is some.
MergedContentToggleIgnored(delta, show) ==
  LET content == Coalesce(Get(delta, "content"), Str(""))
      reasoning == Coalesce(Get(delta, "reasoning_content"), Str(""))
  IN IF Truthy(reasoning)
       THEN Str("<think>" \o TemplateString(reasoning) \o "</think>\\n\\n"
                \o TemplateString(content))
       ELSE content

\* The content of the rewritten delta (lines 228-233).
MergedContent(delta, show) ==
  LET content == Coalesce(Get(delta, "content"), Str(""))
      reasoning == Coalesce(Get(delta, "reasoning_content"), Str(""))
  IN IF show /\ Truthy(reasoning)
       THEN Str("<think>" \o TemplateString(reasoning) \o "</think>\\n\\n"
                \o TemplateString(content))
       ELSE content

\* parsed.choices?.[0]
FirstChoice(parsed) ==
  LET choices == Get(parsed, "choices") IN
    IF choices.t = "array" /\ Len(choices.items) >= 1
      THEN choices.items[1] ELSE Undefined

\* RewriteDelta with the content set in the upstream delta, its other fields
\* kept.
RewriteDeltaKeepFields(parsed, show) ==
  IF parsed.t # "object" THEN [ok |-> FALSE, v |-> Undefined]
  ELSE LET first == FirstChoice(parsed)
           delta == Coalesce(IF Nullish(first) THEN Undefined
                                ELSE Get(first, "delta"),
                             EmptyObject)
           content == MergedContent(delta, show)
       IN IF first.t # "object" THEN [ok |-> FALSE, v |-> Undefined]
          ELSE [ok |-> TRUE,
                v |-> [parsed EXCEPT !.choices.items[1] =
                         SetField(first, "delta",
                                  SetField(delta, "content", content))]]

\* Lines 226-235 on the parsed value: ok = FALSE for the TypeError of reading
\* a property of null or undefined (parsed is null, or there is no first
\* choice to assign the delta to), else the event with the delta of its first
\* choice replaced by { content }.
RewriteDelta(parsed, show) ==
  IF parsed.t # "object" THEN [ok |-> FALSE, v |-> Undefined]
  ELSE LET first == FirstChoice(parsed)
           delta == Coalesce(IF Nullish(first) THEN Undefined
                                ELSE Get(first, "delta"),
                             EmptyObject)
           content == MergedContent(delta, show)
       IN IF first.t # "object" THEN [ok |-> FALSE, v |-> Undefined]
          ELSE [ok |-> TRUE,
                v |-> [parsed EXCEPT !.choices.items[1] =
                         SetField(first, "delta",
                                  [t |-> "object", content |-> content])]]

\* The text of res.write("data: [DONE]\n\n") and of
\* res.write(`data: ${JSON.stringify(parsed)}\n\n`).
DoneEvent == <<DATA, SP, DONE, NL, NL>>
DataEvent(v) == <<DATA, SP>> \o JSONStringify(v) \o <<NL, NL>>

\* ProcessLine with no catch around the rewrite: the exception leaves the loop.
ProcessLineUncaught(line, show) ==
  IF ~StartsWithData(line) THEN [writes |-> <<>>, exit |-> "continue"]
  ELSE IF IncludesDone(line) THEN [writes |-> <<DoneEvent>>, exit |-> "return"]
  ELSE LET p == JSONParse(Slice5(line))
           r == IF p.ok THEN RewriteDelta(p.v, show)
                        ELSE [ok |-> FALSE, v |-> Undefined]
       IN IF r.ok THEN [writes |-> <<DataEvent(r.v)>>, exit |-> "continue"]
                  ELSE [writes |-> <<>>, exit |-> "return"]

\* The body of the loop (lines 218-239) on one line: what it writes and how it
\* leaves ("continue" to the next line, "return" from the handler).
ProcessLine(line, show) ==
  IF ~StartsWithData(line) THEN [writes |-> <<>>, exit |-> "continue"]
  ELSE IF IncludesDone(line) THEN [writes |-> <<DoneEvent>>, exit |-> "return"]
  ELSE LET p == JSONParse(Slice5(line))
           r == IF p.ok THEN RewriteDelta(p.v, show)
                        ELSE [ok |-> FALSE, v |-> Undefined]
       IN IF r.ok THEN [writes |-> <<DataEvent(r.v)>>, exit |-> "continue"]
                  ELSE [writes |-> <<>>, exit |-> "continue"]

RECURSIVE ProcessLinesReversed(_, _)
\* ProcessLines with the writes of a chunk made last line first.
ProcessLinesReversed(lines, show) ==
  IF lines = <<>> THEN [writes |-> <<>>, log |-> <<>>]
  ELSE LET one == ProcessLine(Head(lines), show)
           entry == [line |-> Head(lines), writes |-> one.writes]
           more == IF one.exit = "return" THEN [writes |-> <<>>, log |-> <<>>]
                   ELSE ProcessLinesReversed(Tail(lines), show)
       IN [writes |-> more.writes \o one.writes, log |-> <<entry>> \o more.log]

RECURSIVE ProcessLines(_, _)
\* The loop of line 217 over lines: the writes it makes, in order, and the log
\* of the lines that entered the body of the loop, each with what it wrote.
ProcessLines(lines, show) ==
  IF lines = <<>> THEN [writes |-> <<>>, log |-> <<>>]
  ELSE LET one == ProcessLine(Head(lines), show)
           entry == [line |-> Head(lines), writes |-> one.writes]
           more == IF one.exit = "return" THEN [writes |-> <<>>, log |-> <<>>]
                   ELSE ProcessLines(Tail(lines), show)
       IN [writes |-> one.writes \o more.writes, log |-> <<entry>> \o more.log]

\* The "data" handler (lines 212-241) on one chunk: the accumulator it leaves,
\* the writes it makes and the lines it handed to the body of the loop.
OnData(buf, chunk, show) ==
  LET text == buf \o Decode(chunk)
      lines == Split(text)
      run == ProcessLines(Front(lines), show)
  IN [buffer |-> Last(lines), writes |-> run.writes, log |-> run.log]

(***************************************************************************)
(* Model mapping and the upstream request (lines 17-27, 49-59, 138-148,    *)
(* 175-188)                                                                *)
(***************************************************************************)
MODEL_MAPPING_FIRST ==
  [ x \in {"gpt-3.5-turbo", "gpt-4", "gpt-4-turbo", "gpt-4o", "claude-3-opus",
           "claude-3-sonnet", "gemini-pro"} |->
    CASE x = "gpt-3.5-turbo" -> "nvidia/llama-3.1-nemotron-ultra-253b-v1"
      [] x = "gpt-4" -> "deepseek-ai/deepseek-v3.2"
      [] x = "gpt-4-turbo" -> "moonshotai/kimi-k2-instruct-0905"
      [] x = "gpt-4o" -> "moonshotai/kimi-k2.5"
      [] x = "claude-3-opus" -> "z-ai/glm4.7"
      [] x = "claude-3-sonnet" -> "qwen/qwen3.5-397b-a17b"
      [] x = "gemini-pro" -> "z-ai/glm5" ]

MODEL_MAPPING ==
  [MODEL_MAPPING_FIRST EXCEPT !["claude-3-sonnet"] = "openai/gpt-oss-20b"]

FALLBACK_MODEL == "meta/llama-3.1-8b-instruct"

ENABLE_THINKING_MODE == FALSE

\* Members every object literal inherits from Object.prototype.
ObjectPrototypeKeys == {"toString", "constructor", "hasOwnProperty", "valueOf"}

\* The property key a value is converted to in table[model].
ToPropertyKey(m) == TemplateString(m)

\* table[model]: the table's own entry, else the member inherited from
\* Object.prototype, else undefined.
Lookup(table, m) ==
  LET k == ToPropertyKey(m) IN
    IF k \in DOMAIN table THEN Str(table[k])
    ELSE IF k \in ObjectPrototypeKeys THEN Inherited(k)
    ELSE Undefined

\* nimModel of the first definition (line 51) and of the final one (line 177)
NimModelFirst(m) == Lookup(MODEL_MAPPING_FIRST, m)
NimModel(m) ==
  LET mapped == Lookup(MODEL_MAPPING, m) IN
    IF Truthy(mapped) THEN mapped ELSE Str(FALLBACK_MODEL)

\* nimRequest of the first definition (lines 53-59)
NimRequestFirst(m, messages, temperature, max_tokens, s) ==
  [t |-> "object",
   model |-> NimModelFirst(m),
   messages |-> messages,
   temperature |-> Coalesce(temperature, Num("0.7")),
   max_tokens |-> Coalesce(max_tokens, Num("32000")),
   stream |-> Bool(Truthy(s))]

\* nimRequest of the final definition (lines 179-188)
NimRequest(m, messages, temperature, max_tokens, s) ==
  LET base == [t |-> "object",
               model |-> NimModel(m),
               messages |-> messages,
               temperature |-> Coalesce(temperature, Num("0.6")),
               max_tokens |-> Coalesce(max_tokens, Num("4096")),
               stream |-> Bool(Truthy(s))]
  IN IF ENABLE_THINKING_MODE
       THEN SetField(base, "extra_body",
                     [t |-> "object",
                      chat_template_kwargs |->
                        [t |-> "object", thinking |-> Bool(TRUE)]])
       ELSE base

\* The object o as JSON.stringify writes it: without the keys whose value is
\* undefined or a function.
JsonObject(o) ==
  [k \in {x \in DOMAIN o : x = "t" \/ o[x].t \notin {"undefined", "builtin"}}
     |-> o[k]]

NoRequest == [t |-> "none"]

(***************************************************************************)
(* Answers (lines 89-103, 248-276)                                         *)
(***************************************************************************)
\* The body of the 500 answer of the first definition (lines 100-102) and of
\* the final one (lines 270-275); err is the exception caught.
ErrorBodyFirst(err) ==
  [t |-> "object",
   error |-> [t |-> "object", message |-> Str("Upstream NIM error")]]
\* ErrorBody with the cause put in the message.
ErrorBodyWithCause(err) ==
  [t |-> "object",
   error |-> [t |-> "object", message |-> Str(err.message),
              type |-> Str("proxy_error")]]
ErrorBody(err) ==
  [t |-> "object",
   error |-> [t |-> "object", message |-> Str("Upstream NIM error"),
              type |-> Str("proxy_error")]]

\* What console.error prints (lines 99, 269): err?.response?.data || err.message
ErrorLogged(err) == IF Truthy(err.data) THEN err.data ELSE Str(err.message)

\* The content of a non-streaming choice (lines 258-260): ok = FALSE when
\* c.message.content reads a property of undefined.
MessageContent(c, show) ==
  LET message == Get(c, "message")
      reasoning == IF Nullish(message) THEN Undefined
                   ELSE Get(message, "reasoning_content")
  IN IF Nullish(message) THEN [ok |-> FALSE, v |-> Undefined]
     ELSE IF show /\ Truthy(reasoning)
       THEN [ok |-> TRUE,
             v |-> Str("<think>" \o TemplateString(reasoning)
                       \o "</think>\\n\\n"
                       \o TemplateString(Get(message, "content")))]
       ELSE [ok |-> TRUE, v |-> Get(message, "content")]

\* One choice of openaiResponse (lines 254-263)
MapChoice(c, show) ==
  [t |-> "object",
   index |-> Get(c, "index"),
   message |-> [t |-> "object", role |-> Str("assistant"),
                content |-> MessageContent(c, show).v],
   finish_reason |-> Get(c, "finish_reason")]

\* OpenaiResponse with the upstream's model and usage passed on as they came.
OpenaiResponsePassThrough(m, data, now, show) ==
  LET choices == Get(data, "choices") IN
    IF choices.t # "array" THEN [ok |-> FALSE, v |-> Undefined]
    ELSE IF \E i \in DOMAIN choices.items :
              ~MessageContent(choices.items[i], show).ok
      THEN [ok |-> FALSE, v |-> Undefined]
    ELSE [ok |-> TRUE,
          v |-> [t |-> "object",
                 id |-> Str("chatcmpl-" \o now \o "000"),
                 object |-> Str("chat.completion"),
                 created |-> Num(now),
                 model |-> Get(data, "model"),
                 choices |-> Arr([i \in DOMAIN choices.items |->
                                    MapChoice(choices.items[i], show)]),
                 usage |-> Get(data, "usage")]]

\* openaiResponse (lines 249-265): ok = FALSE when building it throws (data
\* has no choices array, or a choice has no message).
OpenaiResponse(m, data, now, show) ==
  LET choices == Get(data, "choices") IN
    IF choices.t # "array" THEN [ok |-> FALSE, v |-> Undefined]
    ELSE IF \E i \in DOMAIN choices.items :
              ~MessageContent(choices.items[i], show).ok
      THEN [ok |-> FALSE, v |-> Undefined]
    ELSE [ok |-> TRUE,
          v |-> [t |-> "object",
                 id |-> Str("chatcmpl-" \o now \o "000"),
                 object |-> Str("chat.completion"),
                 created |-> Num(now),
                 model |-> m,
                 choices |-> Arr([i \in DOMAIN choices.items |->
                                    MapChoice(choices.items[i], show)]),
                 usage |-> Coalesce(Get(data, "usage"), EmptyObject)]]

\* The answer of the first definition (lines 90-97): the choices as they came.
OpenaiResponseFirst(m, data, now) ==
  [t |-> "object",
   id |-> Str("chatcmpl-" \o now \o "000"),
   object |-> Str("chat.completion"),
   created |-> Num(now),
   model |-> m,
   choices |-> Get(data, "choices"),
   usage |-> Coalesce(Get(data, "usage"), EmptyObject)]

(***************************************************************************)
(* Inputs: what the caller and the upstream may send                       *)
(***************************************************************************)
ModelNames ==
  {Str("gpt-4"), Str("claude-3-sonnet"), Str("unknown-model-xyz"),
   Str("toString"), Undefined}
Messages == {Arr(<<[t |-> "object", role |-> Str("user"), content |-> Str("hi")]>>)}
Temperatures == {Undefined, Num("0")}
MaxTokens == {Undefined, Num("256")}
StreamFlags == {Undefined, Bool(TRUE)}
Clock == {"1700000000", "1700000001"}

\* Why axios.post rejects: no connection, or an error status with a body.
AxiosErrors ==
  {[message |-> "connect ECONNREFUSED", status |-> "none", data |-> Undefined],
   [message |-> "Request failed with status code 401", status |-> "401",
    data |-> Str("invalid api key nvapi-123")],
   [message |-> "Request failed with status code 429", status |-> "429",
    data |-> Str("rate limit of org acme exceeded")]}

\* The exception of building the answer from a body it does not fit.
TypeErrorCaught ==
  [message |-> "Cannot read properties of undefined", status |-> "none",
   data |-> Undefined]

StreamChoice(i, delta) ==
  [t |-> "object", index |-> Num(i), delta |-> delta, finish_reason |-> Null]
StreamEvent(id, choices) ==
  [t |-> "object", id |-> Str(id), object |-> Str("chat.completion.chunk"),
   choices |-> Arr(choices)]

EvHello ==
  StreamEvent("e1", <<StreamChoice("0",
    [t |-> "object", role |-> Str("assistant"), content |-> Str("Hello"),
     reasoning_content |-> Str("ignored")])>>)
EvCafe ==
  StreamEvent("e2", <<StreamChoice("0",
    [t |-> "object", content |-> Str("caf"), reasoning_content |-> Str("")])>>)
EvTwo ==
  StreamEvent("e3",
    <<StreamChoice("0", [t |-> "object", reasoning_content |-> Str("plan")]),
      StreamChoice("1", [t |-> "object", content |-> Str("B"),
                         reasoning_content |-> Str("secret")])>>)
EvSayDone ==
  StreamEvent("e4", <<StreamChoice("0",
    [t |-> "object", content |-> Str("say [DONE]")])>>)
EvNoChoices == [t |-> "object", id |-> Str("e5"), object |-> Str("ping")]
EvEmptyChoices == StreamEvent("e6", <<>>)
EvNoDelta ==
  StreamEvent("e7", <<[t |-> "object", index |-> Num("0"),
                       finish_reason |-> Str("stop")]>>)

LineHello == <<DATA, SP, JHead(EvHello, FALSE), JTail>>
LineCafe == <<DATA, JHead(EvCafe, FALSE), ByteC3, ByteA9, JTail>>
LineTwo == <<DATA, SP, JHead(EvTwo, TRUE), JTail>>
LineSayDone == <<DATA, SP, JHead(EvSayDone, FALSE), JTail>>
LineNoChoices == <<DATA, JHead(EvNoChoices, FALSE), JTail>>
LineEmptyChoices == <<DATA, SP, JHead(EvEmptyChoices, FALSE), JTail>>
LineNull == <<DATA, SP, NullLit>>
LineNoDelta == <<DATA, SP, JHead(EvNoDelta, FALSE), JTail>>
LineDone == <<DATA, SP, DONE>>
LineTruncated == <<DATA, SP, JHead(EvHello, FALSE)>>
LineDoneJunk == <<DATA, SP, DONE, LitX>>
LineBlank == <<>>
LinePing == <<EventPing>>

\* The lines an upstream answer is made of.
Pool ==
  {LineHello, LineCafe, LineTwo, LineSayDone, LineNoChoices, LineEmptyChoices,
   LineNull, LineNoDelta, LineDone, LineTruncated, LineDoneJunk, LineBlank, LinePing}

RECURSIVE JoinLines(_)
\* The bytes of the lines ls, each ended by a newline.
JoinLines(ls) ==
  IF ls = <<>> THEN <<>> ELSE Head(ls) \o <<NL>> \o JoinLines(Tail(ls))

\* The runs of at most n lines of the pool.
LineSeqs(n) == UNION {[1..k -> Pool] : k \in 0..n}

Message(content, reasoning) ==
  [t |-> "object", role |-> Str("assistant"), content |-> content,
   reasoning_content |-> reasoning]
Usage == [t |-> "object", total_tokens |-> Num("7")]

BodyOne ==
  [t |-> "object", id |-> Str("cmpl-1"), model |-> Str("deepseek-ai/deepseek-v3.2"),
   choices |-> Arr(<<[t |-> "object", index |-> Num("0"),
                      message |-> Message(Str("Hi"), Str("because")),
                      finish_reason |-> Str("stop")]>>),
   usage |-> Usage]
BodyNoUsage ==
  [t |-> "object", id |-> Str("cmpl-2"), model |-> Str("deepseek-ai/deepseek-v3.2"),
   choices |-> Arr(<<[t |-> "object", index |-> Num("0"),
                      message |-> [t |-> "object", role |-> Str("assistant"),
                                   content |-> Str("Hi")],
                      finish_reason |-> Str("stop")]>>)]
BodyTwo ==
  [t |-> "object", id |-> Str("cmpl-3"), model |-> Str("meta/llama-3.1-8b-instruct"),
   choices |-> Arr(<<[t |-> "object", index |-> Num("0"),
                      message |-> [t |-> "object", role |-> Str("assistant"),
                                   reasoning_content |-> Str("plan")],
                      finish_reason |-> Str("length")],
                     [t |-> "object", index |-> Num("1"),
                      message |-> Message(Str(""), Str("")),
                      finish_reason |-> Str("stop")]>>),
   usage |-> Null]
BodyNoMessage ==
  [t |-> "object", id |-> Str("cmpl-4"),
   choices |-> Arr(<<[t |-> "object", index |-> Num("0"),
                      finish_reason |-> Str("stop")]>>),
   usage |-> Usage]
BodyNoChoices ==
  [t |-> "object", id |-> Str("cmpl-5"), detail |-> Str("model is loading")]

\* The bodies of a 2xx answer to a non-streaming call.
UpstreamBodies == {BodyOne, BodyNoUsage, BodyTwo, BodyNoMessage, BodyNoChoices}

(***************************************************************************)
(* State                                                                   *)
(***************************************************************************)
VARIABLES
  defn,            \* "first" or "final": the definition serving the request
  SHOW_REASONING,  \* the toggle of line 134
  pc,              \* "idle", "awaiting" (axios.post), "streaming", "done"
  model,           \* req.body.model (lines 49, 175)
  stream,          \* req.body.stream
  nimRequest,      \* the request in flight to the upstream
  upstream,        \* nimResponse: [state, data, sent, pending, started]
  buffer,          \* the accumulator of line 210
  res,             \* the response to the caller
  clientClosed,    \* the caller's connection is closed
  log,             \* the lines the loop of line 217 took, with their writes
  errlog,          \* what console.error printed
  tasks            \* streaming requests served at the same time, one record each

vars ==
  <<defn, SHOW_REASONING, pc, model, stream, nimRequest, upstream, buffer, res,
    clientClosed, log, errlog, tasks>>

\* nimResponse, the upstream's answer: its state ("none" before the call
\* settles, "answered" for a JSON body, and "open", "ended" or "errored" for a
\* stream), the JSON body, and for a stream the bytes it has delivered, the
\* bytes of the line it has begun and not yet delivered in full, and the
\* number of lines it has begun.  The upstream chooses each line when it
\* begins it.
NoUpstream ==
  [state |-> "none", data |-> Undefined, sent |-> <<>>, pending |-> <<>>,
   started |-> 0]
OpenUpstream == [NoUpstream EXCEPT !.state = "open"]
Answered(data) == [NoUpstream EXCEPT !.state = "answered", !.data = data]

\* The bytes the upstream can deliver next when it goes on with the lines ls.
Available(ls) == upstream.pending \o JoinLines(ls)

\* The lines an open upstream may begin with its next chunk: at most
\* MaxLines in all.
NextLines ==
  IF upstream.state = "open" THEN LineSeqs(MaxLines - upstream.started) ELSE {}

\* The sizes of a chunk that begins the lines ls: it reaches into the last of
\* them (ls is empty when the chunk stays within the line already begun).
ChunkSizes(ls) ==
  IF ls = <<>> THEN 1..Len(upstream.pending)
  ELSE (Len(upstream.pending \o JoinLines(Front(ls))) + 1)..Len(Available(ls))

\* The upstream delivers a chunk of n bytes, beginning the lines ls.
CanDeliver(ls, n) ==
  /\ upstream.state = "open"
  /\ ls \in NextLines
  /\ n \in ChunkSizes(ls)

Chunk(ls, n) == SubSeq(Available(ls), 1, n)

Delivered(ls, n) ==
  [upstream EXCEPT !.sent = @ \o Chunk(ls, n),
                   !.pending = SubSeq(Available(ls), n + 1, Len(Available(ls))),
                   !.started = @ + Len(ls)]

FreshResponse ==
  [statusCode |-> "200", contentType |-> "", flushed |-> FALSE,
   body |-> Undefined, sends |-> 0, written |-> <<>>, ended |-> FALSE,
   endCalls |-> 0, discarded |-> FALSE]

\* The streaming requests in flight together, and the state of one: where its
\* upstream is ("idle" before the streaming branch is entered, then "open",
\* "ended" or "errored"), the chunks its upstream delivered, its accumulator
\* (line 210), and the bytes written to its response and whether it is ended.
Tasks == {1, 2}
IdleTask ==
  [state |-> "idle", chunks |-> <<>>, buffer |-> <<>>, written |-> <<>>,
   ended |-> FALSE]

Init ==
  /\ defn \in {"first", "final"}
  /\ SHOW_REASONING \in (IF defn = "final" THEN BOOLEAN ELSE {FALSE})
  /\ pc = "idle"
  /\ model = Undefined
  /\ stream = Undefined
  /\ nimRequest = NoRequest
  /\ upstream = NoUpstream
  /\ buffer = <<>>
  /\ res = FreshResponse
  /\ clientClosed = FALSE
  /\ log = <<>>
  /\ errlog = <<>>
  /\ tasks = [i \in Tasks |-> IdleTask]

(***************************************************************************)
(* The response object                                                     *)
(***************************************************************************)
\* res.status(code).json(body)
ResJson(r, code, body) ==
  [r EXCEPT !.statusCode = code, !.contentType = "application/json",
            !.body = JsonObject(body), !.sends = @ + 1, !.ended = TRUE,
            !.endCalls = @ + 1]

\* Lines 205-208 (77-80): the headers of the event stream, flushed.
ResFlushHeaders(r) ==
  [r EXCEPT !.contentType = "text/event-stream", !.flushed = TRUE]

\* res.write(bytes): the bytes reach the caller unless the response is ended
\* or the caller's connection is closed; then they are discarded.
ResWrite(r, closed, bytes) ==
  IF bytes = <<>> THEN r
  ELSE IF r.ended \/ closed THEN [r EXCEPT !.discarded = TRUE]
  ELSE [r EXCEPT !.written = @ \o bytes]

\* res.end()
ResEnd(r) == [r EXCEPT !.ended = TRUE, !.endCalls = @ + 1]

RECURSIVE Flatten(_)
\* The writes ws one after the other.
Flatten(ws) == IF ws = <<>> THEN <<>> ELSE Head(ws) \o Flatten(Tail(ws))

(***************************************************************************)
(* POST /v1/chat/completions, final definition (lines 173-277)             *)
(***************************************************************************)
\* Lines 175-201: the request is read, nimRequest built and sent.
ChatCompletions(m, messages, temperature, max_tokens, s) ==
  /\ pc = "idle" /\ defn = "final"
  /\ model' = m
  /\ stream' = s
  /\ nimRequest' = NimRequest(m, messages, temperature, max_tokens, s)
  /\ pc' = "awaiting"
  /\ UNCHANGED <<tasks, defn, SHOW_REASONING, upstream, buffer, res, clientClosed,
                 log, errlog>>

\* Lines 268-276: axios.post rejects and the catch block answers.
Rejected(err) ==
  /\ pc = "awaiting" /\ defn = "final"
  /\ errlog' = Append(errlog, ErrorLogged(err))
  /\ res' = ResJson(res, "500", ErrorBody(err))
  /\ nimRequest' = NoRequest
  /\ pc' = "done"
  /\ UNCHANGED <<tasks, defn, SHOW_REASONING, model, stream, upstream, buffer,
                 clientClosed, log>>

\* Lines 248-267, and 268-276 when building the answer throws.
ResolvedJson(data, now) ==
  /\ pc = "awaiting" /\ defn = "final" /\ ~Truthy(stream)
  /\ LET built == OpenaiResponse(model, data, now, SHOW_REASONING) IN
       IF built.ok
         THEN /\ res' = ResJson(res, "200", built.v)
              /\ errlog' = errlog
         ELSE /\ res' = ResJson(res, "500", ErrorBody(TypeErrorCaught))
              /\ errlog' = Append(errlog, ErrorLogged(TypeErrorCaught))
  /\ upstream' = Answered(data)
  /\ nimRequest' = NoRequest
  /\ pc' = "done"
  /\ UNCHANGED <<tasks, defn, SHOW_REASONING, model, stream, buffer, clientClosed,
                 log>>

\* Lines 204-211 and 243-245: the headers are flushed, the accumulator is
\* empty, the three handlers are registered and the request handler returns
\* (its locals model, stream and nimRequest are no longer read).
ResolvedStream ==
  /\ pc = "awaiting" /\ defn = "final" /\ Truthy(stream)
  /\ res' = ResFlushHeaders(res)
  /\ buffer' = <<>>
  /\ upstream' = OpenUpstream
  /\ model' = Undefined /\ stream' = Undefined /\ nimRequest' = NoRequest
  /\ pc' = "streaming"
  /\ UNCHANGED <<tasks, defn, SHOW_REASONING, clientClosed, log, errlog>>

\* Lines 212-241: the next n bytes of the upstream arrive as one chunk.
StreamData(ls, n) ==
  /\ pc = "streaming" /\ defn = "final"
  /\ CanDeliver(ls, n)
  /\ LET r == OnData(buffer, Chunk(ls, n), SHOW_REASONING)
     IN /\ buffer' = r.buffer
        /\ res' = ResWrite(res, clientClosed, Flatten(r.writes))
        /\ log' = log \o r.log
  /\ upstream' = Delivered(ls, n)
  /\ UNCHANGED <<tasks, defn, SHOW_REASONING, pc, model, stream, nimRequest,
                 clientClosed, errlog>>

\* StreamEnd with the accumulator processed as a last line before the end.
StreamEndFlush ==
  /\ pc = "streaming" /\ defn = "final" /\ upstream.state = "open"
  /\ upstream' = [upstream EXCEPT !.state = "ended"]
  /\ LET last == ProcessLine(buffer, SHOW_REASONING) IN
       /\ res' = ResEnd(ResWrite(res, clientClosed, Flatten(last.writes)))
       /\ log' = Append(log, [line |-> buffer, writes |-> last.writes])
  /\ buffer' = <<>>
  /\ UNCHANGED <<tasks, defn, SHOW_REASONING, pc, model, stream, nimRequest,
                 clientClosed, errlog>>

\* Line 243: the upstream ends.
StreamEnd ==
  /\ pc = "streaming" /\ defn = "final" /\ upstream.state = "open"
  /\ upstream' = [upstream EXCEPT !.state = "ended"]
  /\ res' = ResEnd(res)
  /\ UNCHANGED <<tasks, defn, SHOW_REASONING, pc, model, stream, nimRequest, buffer,
                 clientClosed, log, errlog>>

\* StreamError with the accumulator processed as a last line before the end.
StreamErrorFlush ==
  /\ pc = "streaming" /\ defn = "final" /\ upstream.state = "open"
  /\ upstream' = [upstream EXCEPT !.state = "errored"]
  /\ res' = ResEnd(ResWrite(res, clientClosed,
                            Flatten(ProcessLine(buffer, SHOW_REASONING).writes)))
  /\ UNCHANGED <<tasks, defn, SHOW_REASONING, pc, model, stream, nimRequest, buffer,
                 clientClosed, log, errlog>>

\* Line 244: the upstream fails.
StreamError ==
  /\ pc = "streaming" /\ defn = "final" /\ upstream.state = "open"
  /\ upstream' = [upstream EXCEPT !.state = "errored"]
  /\ res' = ResEnd(res)
  /\ UNCHANGED <<tasks, defn, SHOW_REASONING, pc, model, stream, nimRequest, buffer,
                 clientClosed, log, errlog>>

\* The caller's connection closes early.  No handler of either definition
\* listens for it.
ClientClose ==
  /\ pc \in {"awaiting", "streaming"} /\ ~clientClosed /\ ~res.ended
  /\ clientClosed' = TRUE
  /\ UNCHANGED <<tasks, defn, SHOW_REASONING, pc, model, stream, nimRequest, upstream,
                 buffer, res, log, errlog>>

(***************************************************************************)
(* POST /v1/chat/completions, first definition (lines 47-104)              *)
(***************************************************************************)
\* Lines 49-73
ChatCompletionsFirst(m, messages, temperature, max_tokens, s) ==
  /\ pc = "idle" /\ defn = "first"
  /\ model' = m
  /\ stream' = s
  /\ nimRequest' = NimRequestFirst(m, messages, temperature, max_tokens, s)
  /\ pc' = "awaiting"
  /\ UNCHANGED <<tasks, defn, SHOW_REASONING, upstream, buffer, res, clientClosed,
                 log, errlog>>

\* Lines 98-103
RejectedFirst(err) ==
  /\ pc = "awaiting" /\ defn = "first"
  /\ errlog' = Append(errlog, ErrorLogged(err))
  /\ res' = ResJson(res, "500", ErrorBodyFirst(err))
  /\ nimRequest' = NoRequest
  /\ pc' = "done"
  /\ UNCHANGED <<tasks, defn, SHOW_REASONING, model, stream, upstream, buffer,
                 clientClosed, log>>

\* Lines 89-97
ResolvedJsonFirst(data, now) ==
  /\ pc = "awaiting" /\ defn = "first" /\ ~Truthy(stream)
  /\ res' = ResJson(res, "200", OpenaiResponseFirst(model, data, now))
  /\ upstream' = Answered(data)
  /\ nimRequest' = NoRequest
  /\ pc' = "done"
  /\ UNCHANGED <<tasks, defn, SHOW_REASONING, model, stream, buffer, clientClosed,
                 log, errlog>>

\* Lines 76-86: the upstream is piped to the response.
ResolvedStreamFirst ==
  /\ pc = "awaiting" /\ defn = "first" /\ Truthy(stream)
  /\ res' = ResFlushHeaders(res)
  /\ upstream' = OpenUpstream
  /\ model' = Undefined /\ stream' = Undefined /\ nimRequest' = NoRequest
  /\ pc' = "streaming"
  /\ UNCHANGED <<tasks, defn, SHOW_REASONING, buffer, clientClosed, log, errlog>>

\* Line 83: pipe() writes each chunk as it came.  It detaches when the
\* response closes, and the upstream is read no further.
PipeData(ls, n) ==
  /\ pc = "streaming" /\ defn = "first"
  /\ ~clientClosed
  /\ CanDeliver(ls, n)
  /\ res' = ResWrite(res, clientClosed, Chunk(ls, n))
  /\ upstream' = Delivered(ls, n)
  /\ UNCHANGED <<tasks, defn, SHOW_REASONING, pc, model, stream, nimRequest, buffer,
                 clientClosed, log, errlog>>

\* Line 83: pipe() ends the response when the upstream ends.
PipeEnd ==
  /\ pc = "streaming" /\ defn = "first" /\ upstream.state = "open"
  /\ ~clientClosed
  /\ upstream' = [upstream EXCEPT !.state = "ended"]
  /\ res' = ResEnd(res)
  /\ UNCHANGED <<tasks, defn, SHOW_REASONING, pc, model, stream, nimRequest, buffer,
                 clientClosed, log, errlog>>

\* Line 85
PipeError ==
  /\ pc = "streaming" /\ defn = "first" /\ upstream.state = "open"
  /\ upstream' = [upstream EXCEPT !.state = "errored"]
  /\ res' = ResEnd(res)
  /\ UNCHANGED <<tasks, defn, SHOW_REASONING, pc, model, stream, nimRequest, buffer,
                 clientClosed, log, errlog>>

Next ==
  \/ \E m \in ModelNames, messages \in Messages, temperature \in Temperatures,
        max_tokens \in MaxTokens, s \in StreamFlags :
       ChatCompletions(m, messages, temperature, max_tokens, s)
  \/ \E err \in AxiosErrors : Rejected(err)
  \/ \E data \in UpstreamBodies, now \in Clock : ResolvedJson(data, now)
  \/ ResolvedStream
  \/ \E ls \in NextLines : \E n \in ChunkSizes(ls) : StreamData(ls, n)
  \/ StreamEnd
  \/ StreamError
  \/ ClientClose
  \/ \E m \in ModelNames, messages \in Messages, temperature \in Temperatures,
        max_tokens \in MaxTokens, s \in StreamFlags :
       ChatCompletionsFirst(m, messages, temperature, max_tokens, s)
  \/ \E err \in AxiosErrors : RejectedFirst(err)
  \/ \E data \in UpstreamBodies, now \in Clock : ResolvedJsonFirst(data, now)
  \/ ResolvedStreamFirst
  \/ \E ls \in NextLines : \E n \in ChunkSizes(ls) : PipeData(ls, n)
  \/ PipeEnd
  \/ PipeError

Spec == Init /\ [][Next]_vars

(***************************************************************************)
(* Several streaming requests at once (lines 204-246, one closure each)    *)
(***************************************************************************)
\* The chunks an upstream delivers: the beginning of an event line, its end,
\* and a whole sentinel line.
ChunkHalf == <<DATA, SP, JHead(EvHello, FALSE)>>
ChunkRest == <<JTail, NL>>
ChunkDoneLine == LineDone \o <<NL>>
TaskChunks == {ChunkHalf, ChunkRest, ChunkDoneLine}

\* The variables of the one-request model stay as they are.
OneRequestIdle ==
  UNCHANGED <<defn, SHOW_REASONING, pc, model, stream, nimRequest, upstream,
              buffer, res, clientClosed, log, errlog>>

\* Lines 204-211 for request i: its own accumulator, empty.
TaskStart(i) ==
  /\ tasks[i].state = "idle"
  /\ tasks' = [tasks EXCEPT ![i] = [@ EXCEPT !.state = "open", !.buffer = <<>>]]
  /\ OneRequestIdle

\* TaskData with one accumulator for all the requests, declared outside the
\* request handler.
TaskDataSharedBuffer(i, chunk) ==
  /\ tasks[i].state = "open"
  /\ Len(tasks[i].chunks) < MaxChunks
  /\ LET r == OnData(tasks[1].buffer, chunk, SHOW_REASONING)
         wrote == [tasks EXCEPT ![i] =
                     [@ EXCEPT !.written = @ \o Flatten(r.writes),
                               !.chunks = Append(@, chunk)]]
     IN tasks' = [wrote EXCEPT ![1] = [@ EXCEPT !.buffer = r.buffer]]
  /\ OneRequestIdle

\* Lines 212-241 for request i: a chunk of its upstream goes through the data
\* handler of its closure, with its accumulator and its response.
TaskData(i, chunk) ==
  /\ tasks[i].state = "open"
  /\ Len(tasks[i].chunks) < MaxChunks
  /\ LET r == OnData(tasks[i].buffer, chunk, SHOW_REASONING)
     IN tasks' = [tasks EXCEPT ![i] =
                    [@ EXCEPT !.buffer = r.buffer,
                              !.written = @ \o Flatten(r.writes),
                              !.chunks = Append(@, chunk)]]
  /\ OneRequestIdle

\* Line 243 for request i
TaskEnd(i) ==
  /\ tasks[i].state = "open"
  /\ tasks' = [tasks EXCEPT ![i] = [@ EXCEPT !.state = "ended", !.ended = TRUE]]
  /\ OneRequestIdle

\* Line 244 for request i
TaskError(i) ==
  /\ tasks[i].state = "open"
  /\ tasks' = [tasks EXCEPT ![i] = [@ EXCEPT !.state = "errored", !.ended = TRUE]]
  /\ OneRequestIdle

ConcInit ==
  /\ defn = "final"
  /\ SHOW_REASONING \in BOOLEAN
  /\ pc = "idle"
  /\ model = Undefined
  /\ stream = Undefined
  /\ nimRequest = NoRequest
  /\ upstream = NoUpstream
  /\ buffer = <<>>
  /\ res = FreshResponse
  /\ clientClosed = FALSE
  /\ log = <<>>
  /\ errlog = <<>>
  /\ tasks = [i \in Tasks |-> IdleTask]

ConcNext ==
  \/ \E i \in Tasks : TaskStart(i)
  \/ \E i \in Tasks, chunk \in TaskChunks : TaskData(i, chunk)
  \/ \E i \in Tasks : TaskEnd(i)
  \/ \E i \in Tasks : TaskError(i)

ConcSpec == ConcInit /\ [][ConcNext]_vars

(***************************************************************************)
(* Properties                                                              *)
(***************************************************************************)
Streaming == pc = "streaming" /\ defn = "final"

\* The lines the loop of line 217 took so far, in order.
Handed == [i \in DOMAIN log |-> log[i].line]

\* The upstream text delivered so far, decoded in one piece, cut into lines.
SentLines == Split(Decode(upstream.sent))

\* The bytes delivered so far end in the middle of a character.
MidCharacter == upstream.sent # <<>> /\ Last(upstream.sent) = ByteC3

\* Whether some line delivered so far is a "data:" line holding [DONE].
SomeDoneLine ==
  \E i \in DOMAIN SentLines :
    StartsWithData(SentLines[i]) /\ IncludesDone(SentLines[i])

\* The payload of a "data:" line is the sentinel, [DONE], and nothing else.
IsSentinel(line) ==
  StartsWithData(line) /\ TrimRight(TrimLeft(Slice5(line))) = <<DONE>>

\* C1: however the upstream text is cut into chunks, the lines handed to the
\* per-line processing are exactly the complete lines of the text delivered so
\* far, in order, and the accumulator holds the unfinished rest.  Stated for
\* the answers with no [DONE] line, where the sentinel rule of C2 stops nothing.
C1_LinesReassembled ==
  (Streaming /\ ~SomeDoneLine) =>
    /\ Handed = Front(SentLines)
    /\ ~MidCharacter => buffer = Last(SentLines)

\* C2: once a "data:" line carrying the sentinel has been processed, no later
\* line of the upstream is processed, so the sentinel line is the last line the
\* loop takes and at most one sentinel event is written.
C2_NothingAfterSentinel ==
  Streaming =>
    \A i \in DOMAIN log : IsSentinel(log[i].line) => i = Len(log)

\* C3: a complete "data:" line whose payload is not valid JSON and is not the
\* sentinel writes nothing downstream.
C3_MalformedLineWritesNothing ==
  Streaming =>
    \A i \in DOMAIN log :
      ( /\ StartsWithData(log[i].line)
        /\ ~IsSentinel(log[i].line)
        /\ ~JSONParse(Slice5(log[i].line)).ok ) => log[i].writes = <<>>

\* Whether the JSON value v carries reasoning: a choice whose delta has a
\* non-empty reasoning_content.
CarriesReasoning(v) ==
  /\ v.t = "object"
  /\ Get(v, "choices").t = "array"
  /\ \E i \in DOMAIN v.choices.items :
       LET d == Get(v.choices.items[i], "delta") IN
         d.t = "object" /\ Truthy(Get(d, "reasoning_content"))

\* C4: with the toggle disabled no event written downstream contains
\* reasoning content of the upstream, in any of its choices.
C4_ReasoningNeverLeaks ==
  (Streaming /\ ~SHOW_REASONING) =>
    \A i \in DOMAIN res.written :
      IsJHead(res.written[i]) => ~CarriesReasoning(res.written[i].v)

\* The event a write of the data handler carries: its text after "data:" and
\* before the two newlines, parsed.
EmittedEvent(w) == JSONParse(SubSeq(w, 2, Len(w) - 2)).v

\* The merge rule of C5 on (visible content, reasoning content, toggle).
MergeRule(visible, reasoning, toggle) ==
  LET c == IF Nullish(visible) THEN "" ELSE visible.s IN
    IF toggle /\ reasoning.t = "string" /\ reasoning.s # ""
      THEN "<think>" \o reasoning.s \o "</think>\\n\\n" \o c
      ELSE c

\* The line was parsed by the handler, as a JSON value with a first choice.
ParsedWithFirstChoice(line) ==
  /\ StartsWithData(line)
  /\ ~IncludesDone(line)
  /\ JSONParse(Slice5(line)).ok
  /\ FirstChoice(JSONParse(Slice5(line)).v).t = "object"

\* C5: for every successfully parsed event with a first choice, one event is
\* written and the content of its first delta is the merge rule applied to the
\* upstream delta's visible content, reasoning content and the toggle.
C5_ContentIsMergeRule ==
  Streaming =>
    \A i \in DOMAIN log :
      ParsedWithFirstChoice(log[i].line) =>
        LET first == FirstChoice(JSONParse(Slice5(log[i].line)).v)
            delta == Coalesce(Get(first, "delta"), EmptyObject)
        IN /\ Len(log[i].writes) = 1
           /\ Get(Get(FirstChoice(EmittedEvent(log[i].writes[1])), "delta"),
                  "content")
                = Str(MergeRule(Get(delta, "content"),
                                Get(delta, "reasoning_content"),
                                SHOW_REASONING))

C5_Witness ==
  /\ Streaming /\ SHOW_REASONING
  /\ \E i \in DOMAIN log :
       /\ log[i].line = LineTwo
       /\ log[i].writes # <<>>
       /\ Get(Get(FirstChoice(EmittedEvent(log[i].writes[1])), "delta"),
              "content") = Str("<think>plan</think>\\n\\n")

\* C6: the model of the upstream request is the table's value for a name that
\* is a key of the table and the fallback identifier for every other name.
C6_ModelOrFallback ==
  (pc = "awaiting" /\ defn = "final") =>
    Get(nimRequest, "model") =
      IF model.t = "string" /\ model.s \in DOMAIN MODEL_MAPPING
        THEN Str(MODEL_MAPPING[model.s])
        ELSE Str(FALLBACK_MODEL)

\* C7: the model of a non-streaming answer is the name the caller sent and its
\* usage is the upstream's usage object, or the empty object when the upstream
\* sent none.
C7_ModelAndUsageEchoed ==
  (pc = "done" /\ res.statusCode = "200") =>
    /\ Get(res.body, "model") = model
    /\ Get(res.body, "usage") =
         IF Get(upstream.data, "usage").t = "object"
           THEN upstream.data.usage ELSE EmptyObject

C7_Witness ==
  /\ pc = "done" /\ defn = "final" /\ res.statusCode = "200"
  /\ model = Str("unknown-model-xyz")
  /\ upstream.data = BodyNoUsage
  /\ Get(res.body, "usage") = EmptyObject

\* C8: once the caller's connection is closed the task reads nothing more from
\* the upstream: the upstream connection is torn down with the close.
C8_NoReadAfterClose ==
  [][(Streaming /\ clientClosed) => upstream'.sent = upstream.sent]_vars

\* Everything the data handler wrote, in order.
LogWrites == Flatten([i \in DOMAIN log |-> Flatten(log[i].writes)])

IsPrefix(a, b) == Len(a) <= Len(b) /\ a = SubSeq(b, 1, Len(a))

UpstreamOver == Streaming /\ upstream.state \in {"ended", "errored"}

\* C9: when the upstream ends or fails the response is ended, once; the caller
\* got the writes of the data handler and nothing else (no status, no body, no
\* event of the end or error handler, nothing of the accumulator), and nothing
\* is processed or written from then on.
C9_EndsTheStreamOnly ==
  /\ [](UpstreamOver =>
          /\ res.ended /\ res.endCalls = 1
          /\ res.statusCode = "200" /\ res.sends = 0 /\ res.body = Undefined
          /\ IsPrefix(res.written, LogWrites)
          /\ ~res.discarded => res.written = LogWrites)
  /\ [][UpstreamOver => (res' = res /\ log' = log)]_vars

C9_Witness ==
  /\ Streaming /\ upstream.state = "errored"
  /\ buffer = LineHello
  /\ res.ended /\ res.written # <<>>

\* C10: every failure the handler reports is one answer with status 500 and
\* the one fixed body, whatever the cause; the cause goes to the log only.
C10_OneGenericError ==
  (errlog # <<>> \/ res.statusCode # "200") =>
    /\ pc = "done"
    /\ Len(errlog) = 1
    /\ res.statusCode = "500"
    /\ res.sends = 1
    /\ res.written = <<>>
    /\ res.body =
         IF defn = "final"
           THEN [t |-> "object",
                 error |-> [t |-> "object",
                            message |-> Str("Upstream NIM error"),
                            type |-> Str("proxy_error")]]
           ELSE [t |-> "object",
                 error |-> [t |-> "object",
                            message |-> Str("Upstream NIM error")]]

C10_Witness ==
  /\ defn = "final" /\ res.statusCode = "500"
  /\ errlog = <<Str("invalid api key nvapi-123")>>

\* The chunk a step delivers, and the text the handler cuts into lines: the
\* accumulator and that chunk, decoded.
StepChunk == SubSeq(upstream'.sent, Len(upstream.sent) + 1, Len(upstream'.sent))
StepText == buffer \o Decode(StepChunk)

\* The entries a step adds to the log.
StepLog == SubSeq(log', Len(log) + 1, Len(log'))

\* C11: the bytes written downstream are the events of the processed lines,
\* each once and in the order of the lines; every chunk adds to them the
\* events of its own reassembled lines, in the order of those lines, after the
\* events of all earlier chunks.  The lines a chunk hands to the loop are the
\* first lines of the reassembled text, in its order.
C11_EventsInLineOrder ==
  /\ [](Streaming =>
          \A all \in {LogWrites} :
            /\ IsPrefix(res.written, all)
            /\ ~res.discarded => res.written = all)
  /\ [][Streaming =>
          /\ IsPrefix(res.written, res'.written)
          /\ log' # log =>
               \A new \in {StepLog} :
                 /\ log' = log \o new
                 /\ IsPrefix(JoinLines([i \in DOMAIN new |-> new[i].line]),
                             StepText)
                 /\ \A i \in DOMAIN new :
                      new[i].writes
                        = ProcessLine(new[i].line, SHOW_REASONING).writes]_vars

C11_Witness ==
  /\ Streaming /\ ~res.discarded
  /\ Len(log) = 2
  /\ log[1].line = LineTwo /\ log[2].line = LineHello
  /\ res.written = Flatten(log[1].writes) \o Flatten(log[2].writes)
  /\ log[1].writes # <<>> /\ log[2].writes # <<>>

\* The number of newlines in text.
Newlines(text) == Cardinality({i \in DOMAIN text : text[i] = NL})

\* A "data:" line the handler parses to a value with no first choice: choices
\* empty or absent, or a value that is no object.
NoFirstChoice(line) ==
  /\ StartsWithData(line)
  /\ ~IncludesDone(line)
  /\ JSONParse(Slice5(line)).ok
  /\ FirstChoice(JSONParse(Slice5(line)).v).t # "object"

\* C12: a "data:" line whose JSON has no first choice writes nothing; the task
\* goes on: the response stays open, nothing is reported, and the line that
\* follows it in the chunk is processed (a chunk holds as many complete lines
\* as it has newlines, the accumulator having none).
C12_NoChoicesIsNoOp ==
  /\ [](Streaming =>
          \A i \in DOMAIN log :
            log[i].writes # <<>> => ~NoFirstChoice(log[i].line))
  /\ [][(Streaming /\ upstream'.sent # upstream.sent) =>
          /\ pc' = pc /\ errlog' = errlog /\ res'.ended = res.ended
          /\ log' # log =>
             \A new \in {StepLog} :
               \A k \in DOMAIN new :
                 NoFirstChoice(new[k].line) =>
                   /\ new[k].writes = <<>>
                   /\ k < Newlines(StepChunk) => Len(new) >= k + 1]_vars

C12_Witness ==
  /\ Streaming /\ ~res.ended /\ ~res.discarded
  /\ log = <<[line |-> LineEmptyChoices, writes |-> <<>>],
             [line |-> LineHello,
              writes |-> ProcessLine(LineHello, SHOW_REASONING).writes]>>
  /\ res.written = Flatten(log[2].writes) /\ res.written # <<>>
  /\ Len(upstream.sent) = Len(JoinLines(<<LineEmptyChoices, LineHello>>))

\* C13: when the upstream ends, the rest held in the accumulator is dropped:
\* the end processes no line and writes nothing, whatever the rest is, and the
\* response is ended; only lines that were ended by a newline were processed.
C13_ResidueDiscarded ==
  /\ []((Streaming /\ upstream.state = "ended") =>
          /\ res.ended
          /\ Len(log) <= Newlines(upstream.sent)
          /\ IsPrefix(res.written, LogWrites))
  /\ [][(Streaming /\ upstream.state = "open" /\ upstream'.state = "ended") =>
          /\ log' = log
          /\ res'.written = res.written /\ res'.discarded = res.discarded
          /\ res'.ended]_vars

C13_Witness ==
  /\ Streaming /\ upstream.state = "ended"
  /\ buffer = LineDone
  /\ upstream.sent = JoinLines(<<LineHello>>) \o LineDone
  /\ Len(log) = 1 /\ log[1].line = LineHello
  /\ res.ended /\ res.written = Flatten(log[1].writes)

\* C14: only a line whose payload is exactly [DONE] is the sentinel.  A "data:"
\* line with a valid JSON payload and a first choice writes one ordinary event,
\* also when its text holds [DONE] inside a string, and the line after it is
\* processed; a line without the "data:" prefix writes nothing.
C14_SentinelIsExactPayload ==
  Streaming =>
    \A i \in DOMAIN log :
      LET line == log[i].line
          p == JSONParse(Slice5(line))
      IN /\ ~StartsWithData(line) => log[i].writes = <<>>
         /\ IsSentinel(line) => log[i].writes = <<DoneEvent>>
         /\ (StartsWithData(line) /\ p.ok /\ FirstChoice(p.v).t = "object") =>
              /\ Len(log[i].writes) = 1
              /\ log[i].writes[1] # DoneEvent
              /\ EmittedEvent(log[i].writes[1]).t = "object"

\* The object o without its field k.
Without(o, k) == [x \in (DOMAIN o) \ {k} |-> o[x]]

\* The event v with the delta of its first choice taken out.
WithoutFirstDelta(v) ==
  [v EXCEPT !.choices.items[1] = Without(@, "delta")]

C16_ChoicesMappedByMergeRule ==
  ( /\ pc = "done" /\ defn = "final" /\ upstream.state = "answered"
    /\ Get(upstream.data, "choices").t = "array" ) =>
    LET from == upstream.data.choices.items
        to == Get(res.body, "choices")
    IN /\ res.statusCode = "200"
       /\ to.t = "array"
       /\ Len(to.items) = Len(from)
       /\ \A i \in DOMAIN from :
            LET message == Coalesce(Get(from[i], "message"), EmptyObject) IN
              /\ Get(to.items[i], "index") = Get(from[i], "index")
              /\ Get(to.items[i], "finish_reason") = Get(from[i], "finish_reason")
              /\ Get(Get(to.items[i], "message"), "role") = Str("assistant")
              /\ Get(Get(to.items[i], "message"), "content")
                   = Str(MergeRule(Get(message, "content"),
                                   Get(message, "reasoning_content"),
                                   SHOW_REASONING))

\* What the data handler writes when the text arrives as one chunk.
OneChunkOutput(text) == Flatten(OnData(<<>>, text, SHOW_REASONING).writes)

\* C17: the bytes written downstream depend on the upstream text only, not on
\* how it was cut into chunks: they are those written when the same text
\* arrives as one chunk.
C17_ChunkingIrrelevant ==
  (Streaming /\ ~clientClosed /\ ~res.discarded) =>
    res.written = OneChunkOutput(upstream.sent)

\* C19: whatever the order of the upstream's data, end and error events and the
\* caller's close, the handlers write no bytes to a response that is ended or
\* whose connection is closed, and the response is ended at most once.
C19_NoWriteAfterEndOrClose ==
  Streaming => (~res.discarded /\ res.endCalls <= 1)

\* C20: after every chunk the accumulator holds no newline and is the part of
\* the upstream text delivered so far that follows its last newline (empty
\* when the text ends with a newline), whether or not the handler returned
\* early.  Stated where the text delivered so far ends on a whole character.
C20_AccumulatorIsTail ==
  Streaming =>
    /\ \A i \in DOMAIN buffer : buffer[i] # NL
    /\ ~MidCharacter => buffer = Last(Split(Decode(upstream.sent)))

RECURSIVE Alone(_)
\* The accumulator and the output of a request that is served alone and whose
\* upstream delivers the chunks cs.
Alone(cs) ==
  IF cs = <<>> THEN [buffer |-> <<>>, written |-> <<>>]
  ELSE LET before == Alone(Front(cs))
           r == OnData(before.buffer, Last(cs), SHOW_REASONING)
       IN [buffer |-> r.buffer, written |-> before.written \o Flatten(r.writes)]

\* C18: requests streamed at the same time do not interfere.  Under every
\* interleaving of their upstreams' events, the accumulator and the output of
\* each are those of the same request served alone, and a step changes only
\* the request whose upstream made it.
C18_TasksIndependent ==
  /\ [](\A i \in Tasks :
          tasks[i].state # "idle" =>
            /\ tasks[i].buffer = Alone(tasks[i].chunks).buffer
            /\ tasks[i].written = Alone(tasks[i].chunks).written)
  /\ [][\A i \in Tasks :
          ( /\ tasks'[i].chunks = tasks[i].chunks
            /\ tasks'[i].state = tasks[i].state ) => tasks'[i] = tasks[i]]_vars

C18_Witness ==
  /\ tasks[1].chunks = <<ChunkHalf, ChunkRest>>
  /\ tasks[2].chunks = <<ChunkDoneLine, ChunkHalf>>
  /\ tasks[1].state = "ended" /\ tasks[2].state = "open"
  /\ tasks[1].written = DataEvent(RewriteDelta(EvHello, SHOW_REASONING).v)
  /\ tasks[1].buffer = <<>>
  /\ tasks[2].written = DoneEvent
  /\ tasks[2].buffer = ChunkHalf

====
